---- MODULE Spec2Model ----
(***************************************************************************)
(* A model of AOTInductorModelBase (torch/csrc/inductor/aoti_runtime/      *)
(* model.h): the completion signal kept by run / run_const_fold /          *)
(* is_finished / wait_for_completion, the constant registry (map and       *)
(* indexed array), load_constants with the device blob and the payload     *)
(* accessor _get_constants_start.                                          *)
(*                                                                         *)
(* The header is compiled in one of three ways (USE_CUDA, USE_XPU or       *)
(* neither) and with or without USE_MMAP_SELF.  The preprocessor choice is *)
(* the variable `build` (and `use_mmap_self`), fixed by Init: every        *)
(* operation below branches on it where the source has an #if.             *)
(***************************************************************************)
EXTENDS Integers, Sequences, FiniteSets, TLC

VARIABLES
    \* ---- build configuration and construction parameters (fixed by Init)
    build,            \* "CPU" | "CUDA" | "XPU": which of USE_CUDA / USE_XPU is defined
    use_mmap_self,    \* USE_MMAP_SELF defined
    device_str,       \* the device string, as a sequence of characters
    device_type_,     \* "cpu" | "cuda" | "xpu", from parse_device_str
    device_idx_,      \* the device index, -1 when the string gives none
    include_weights,  \* constructor argument
    constants_info_,  \* sequence of [name, data_size, from_folded]
    file,             \* the hosting artifact: [fsize, weights_size, magic, trailer]
    \* ---- execution lifecycle
    run_finished_,    \* CPU: "false"/"true"; CUDA, XPU: "unset"/"set" (the optional)
    entry_value,      \* run_finished_ as it was when the run in progress was entered
    event,            \* state of the event run_finished_ holds
    pc,               \* position of the thread that calls run / run_const_fold
    running,          \* which of run / run_const_fold is in progress
    phase,            \* progress of the completion marker of the latest run
    runs,             \* number of run / run_const_fold calls entered
    created,          \* completion primitives created so far
    destroyed,        \* completion primitives destroyed so far
    hist,             \* the two most recent calls and their outcomes
    alive,            \* "alive" | "destroyed" | "crashed"
    \* ---- constant registry, loader, blob, payload
    constants_map_,   \* [null, m]: null pointer, or the map m: names -> handle
    constants_,       \* NULL or the id (address) of the indexed array
    arrays,           \* heap of indexed arrays: id -> sequence of handles
    constant_blob_,   \* NULL or the id of the blob the instance owns
    blobs,            \* heap of device blobs: id -> [size, owner, frees]
    self_mmap,        \* "unmapped" (NULL) | "mapped"
    loads,            \* number of load_constants calls made
    blob_size,        \* a caller's blob_size, as passed to compute_gpu_constant_blob
    constants_internal_offset,  \* a caller's offset vector, likewise
    last,             \* outcome of the most recent registry / loader call
    \* ---- a second instance of the same model, in the same container
    peer_constants_   \* its constants_: NULL or the id of an indexed array

cfgVars   == <<build, use_mmap_self, device_str, device_type_, device_idx_,
               include_weights, constants_info_, file>>
lifeVars  == <<run_finished_, entry_value, event, pc, running, phase, runs,
               created, destroyed, hist>>
constVars == <<constants_map_, constants_, arrays, constant_blob_, blobs,
               self_mmap, loads, blob_size, constants_internal_offset, last>>
peerVars  == <<peer_constants_>>
vars      == <<cfgVars, lifeVars, constVars, alive, peerVars>>

\* The null pointer, as the id of no array and of no blob.
NULL == 0

\* ------------------------------------------------------------------ bounds
MaxRuns == 3
\* load_constants calls (each allocates at most one blob)
MaxLoads == 2
\* indexed arrays ever allocated (by the instance or by its owner)
MaxArrays == 1
\* descriptors of an instance, in the registry and loader specifications
MaxConstants == 2
\* descriptors of an instance, in the layout specification
MaxLayoutConstants == 3

\* =========================================================================
\* Execution lifecycle: run, run_const_fold, is_finished, wait_for_completion
\* =========================================================================

Builds == {"CPU", "CUDA", "XPU"}
Kinds  == {"run", "run_const_fold"}

NoCall == [op |-> "none", res |-> "none", phase |-> "none", pc |-> "idle"]

\* hist keeps the last two calls; every call that starts or ends adds one.
Push(h, op, res) ==
    <<h[2], [op |-> op, res |-> res, phase |-> phase, pc |-> pc]>>

Prev == hist[1]
Last == hist[2]

\* run_finished_ as declared (lines 663-669): a value-initialised bool, or an
\* empty optional.
run_finished_init(b) == IF b = "CPU" THEN "false" ELSE "unset"

\* A prologue that creates an event on every call.
CreatesEvent_always(rf) == TRUE

\* Lines 191 and 224: the CUDA prologue creates the event when the optional
\* is empty.
CreatesEvent(rf) == rf = "unset"

\* The prologue of run / run_const_fold (lines 190-204 and 223-237), up to the
\* call of the compute routine.  XPU waits for the previous event first; the
\* call is then parked at "entry_wait" until the event resolves.
RunEnter(kind) ==
    /\ alive = "alive" /\ pc = "idle" /\ runs < MaxRuns
    /\ runs' = runs + 1
    /\ running' = kind
    /\ entry_value' = run_finished_
    /\ hist' = Push(hist, kind, "entered")
    /\ CASE build = "CUDA" ->
              /\ IF CreatesEvent(run_finished_)
                    THEN /\ run_finished_' = "set"
                         /\ event' = "unrecorded"
                         /\ created' = created + 1
                    ELSE UNCHANGED <<run_finished_, event, created>>
              /\ pc' = "in_impl"
              /\ phase' = "entered"
              /\ UNCHANGED destroyed
         [] build = "XPU" ->
              IF run_finished_ = "set" /\ event = "pending"
                 THEN /\ pc' = "entry_wait"
                      /\ UNCHANGED <<run_finished_, event, created, destroyed, phase>>
                 ELSE /\ IF run_finished_ = "set"
                            THEN /\ run_finished_' = "unset"
                                 /\ event' = "none"
                                 /\ destroyed' = destroyed + 1
                            ELSE UNCHANGED <<run_finished_, event, destroyed>>
                      /\ pc' = "in_impl"
                      /\ phase' = "entered"
                      /\ UNCHANGED created
         [] build = "CPU" ->
              /\ run_finished_' = "false"
              /\ pc' = "in_impl"
              /\ phase' = "entered"
              /\ UNCHANGED <<event, created, destroyed>>
    /\ UNCHANGED <<cfgVars, constVars, alive, peerVars>>

\* XPU only: wait_and_throw() of the prologue returns once the previous event
\* has resolved; the event is deleted and the optional reset (lines 197-201).
RunEntryResume ==
    /\ pc = "entry_wait" /\ event = "complete"
    /\ run_finished_' = "unset"
    /\ event' = "none"
    /\ destroyed' = destroyed + 1
    /\ pc' = "in_impl"
    /\ phase' = "entered"
    /\ UNCHANGED <<entry_value, running, runs, created, hist>>
    /\ UNCHANGED <<cfgVars, constVars, alive, peerVars>>

\* The compute routine returns and the epilogue records the completion marker
\* (lines 209-216 and 243-255).  cudaEventRecord fails, and the DEVICE_CHECK
\* throws, when the device context is in error.
RunImplReturn ==
    /\ pc = "in_impl"
    /\ pc' = "idle"
    /\ CASE build = "CUDA" ->
              IF event = "error"
                 THEN /\ hist' = Push(hist, running, "throw_device")
                      /\ UNCHANGED <<run_finished_, event, created, phase>>
                 ELSE /\ event' = "pending"
                      /\ phase' = "recorded"
                      /\ hist' = Push(hist, running, "ok")
                      /\ UNCHANGED <<run_finished_, created>>
         [] build = "XPU" ->
              /\ run_finished_' = "set"
              /\ event' = "pending"
              /\ created' = created + 1
              /\ phase' = "recorded"
              /\ hist' = Push(hist, running, "ok")
         [] build = "CPU" ->
              /\ run_finished_' = "true"
              /\ phase' = "resolved"
              /\ hist' = Push(hist, running, "ok")
              /\ UNCHANGED <<event, created>>
    /\ UNCHANGED <<entry_value, running, runs, destroyed>>
    /\ UNCHANGED <<cfgVars, constVars, alive, peerVars>>

\* The compute routine throws: the exception leaves run / run_const_fold
\* before the epilogue (lines 207 and 241 are not guarded).
RunImplThrow ==
    /\ pc = "in_impl"
    /\ pc' = "idle"
    /\ hist' = Push(hist, running, "throw_impl")
    /\ UNCHANGED <<run_finished_, entry_value, event, running, phase, runs,
                   created, destroyed>>
    /\ UNCHANGED <<cfgVars, constVars, alive, peerVars>>

\* The device reaches the recorded marker.
DeviceComplete ==
    /\ event = "pending"
    /\ event' = "complete"
    /\ phase' = IF phase = "recorded" THEN "resolved" ELSE phase
    /\ UNCHANGED <<run_finished_, entry_value, pc, running, runs, created,
                   destroyed, hist>>
    /\ UNCHANGED <<cfgVars, constVars, alive, peerVars>>

\* The device work ahead of the marker fails; cudaEventQuery and
\* cudaEventSynchronize then report an error (lines 544-546, 567).
DeviceFail ==
    /\ build = "CUDA" /\ event = "pending"
    /\ event' = "error"
    /\ UNCHANGED <<run_finished_, entry_value, pc, running, phase, runs,
                   created, destroyed, hist>>
    /\ UNCHANGED <<cfgVars, constVars, alive, peerVars>>

\* What is_finished() (lines 531-558) returns for the value `rf` it reads from
\* run_finished_ and the state `ev` of the event that value designates.
\* cudaEventQuery reports cudaSuccess for an event that was never recorded.
is_finished(b, rf, ev) ==
    CASE b = "CUDA" ->
            IF rf = "unset" THEN "throw_uninit"
            ELSE IF ev \in {"unrecorded", "complete"} THEN "true"
            ELSE IF ev = "pending" THEN "false"
            ELSE "throw_failed"
      [] b = "XPU" ->
            IF rf = "unset" THEN "throw_uninit"
            ELSE IF ev = "complete" THEN "true" ELSE "false"
      [] b = "CPU" -> rf

\* The outcomes of one is_finished() call.  Called while another thread is
\* inside run (pc = "in_impl") the read of run_finished_ races with the write
\* of the prologue: it yields the value before or after that write.  On XPU
\* the value before the write designates an event the prologue has deleted, so
\* the query of it can give anything.
IsFinishedOutcomes ==
    LET now == is_finished(build, run_finished_, event)
    IN  IF pc # "in_impl" \/ entry_value = run_finished_ THEN {now}
        ELSE IF build = "XPU" THEN {now, "true", "false", "crash"}
        ELSE {now, is_finished(build, entry_value, event)}

IsFinished ==
    /\ alive = "alive" /\ pc \in {"idle", "in_impl"}
    /\ \E r \in IsFinishedOutcomes :
          /\ hist' = Push(hist, "is_finished", r)
          /\ alive' = IF r = "crash" THEN "crashed" ELSE alive
    /\ UNCHANGED <<run_finished_, entry_value, event, pc, running, phase, runs,
                   created, destroyed>>
    /\ UNCHANGED <<cfgVars, constVars, peerVars>>

\* A wait_for_completion that returns without synchronising on the event.
wait_for_completion_no_sync(b, rf, ev) ==
    CASE b = "CPU" -> "ok"
      [] OTHER -> IF rf = "unset" THEN "throw_uninit" ELSE "ok"

\* A wait_for_completion that demands a finished run in the synchronous build
\* too.
wait_for_completion_checks_flag(b, rf, ev) ==
    CASE b = "CPU" -> IF rf = "false" THEN "throw_uninit" ELSE "ok"
      [] OTHER ->
            IF rf = "unset" THEN "throw_uninit"
            ELSE IF ev = "pending" THEN "blocked"
            ELSE IF ev = "error" THEN "throw_device"
            ELSE "ok"

\* What wait_for_completion() (lines 561-575) does once it stops blocking:
\* "blocked" while the event is pending.
wait_for_completion(b, rf, ev) ==
    CASE b = "CPU" -> "ok"
      [] OTHER ->
            IF rf = "unset" THEN "throw_uninit"
            ELSE IF ev = "pending" THEN "blocked"
            ELSE IF ev = "error" THEN "throw_device"
            ELSE "ok"

WaitForCompletion ==
    /\ alive = "alive" /\ pc = "idle"
    /\ wait_for_completion(build, run_finished_, event) # "blocked"
    /\ hist' = Push(hist, "wait_for_completion",
                    wait_for_completion(build, run_finished_, event))
    /\ UNCHANGED <<run_finished_, entry_value, event, pc, running, phase, runs,
                   created, destroyed>>
    /\ UNCHANGED <<cfgVars, constVars, alive, peerVars>>

\* =========================================================================
\* Device string: parse_device_str
\* =========================================================================

Digits == {"0", "1", "2", "3", "4", "5", "6", "7", "8", "9"}

DigitVal(c) ==
    CASE c = "0" -> 0 [] c = "1" -> 1 [] c = "2" -> 2 [] c = "3" -> 3
      [] c = "4" -> 4 [] c = "5" -> 5 [] c = "6" -> 6 [] c = "7" -> 7
      [] c = "8" -> 8 [] c = "9" -> 9

\* The largest int: stoi (line 111) throws std::out_of_range beyond it.
INT_MAX == 2147483647

\* stoi of a sequence of digits, from character i on, acc being the value of
\* the characters before: the number, or -1 for std::out_of_range.
RECURSIVE stoi(_, _, _)
stoi(ds, i, acc) ==
    IF i > Len(ds) THEN acc
    ELSE IF acc > (INT_MAX - DigitVal(ds[i])) \div 10 THEN -1
    ELSE stoi(ds, i + 1, acc * 10 + DigitVal(ds[i]))

\* The alternatives of the first group of the regular expression (line 93).
DeviceKinds == {<<"c", "p", "u">>, <<"c", "u", "d", "a">>, <<"x", "p", "u">>}

\* How far the digits of s run from position i on: the position after them.
RECURSIVE DigitsEnd(_, _)
DigitsEnd(s, i) ==
    IF i <= Len(s) /\ s[i] \in Digits THEN DigitsEnd(s, i + 1) ELSE i

\* The match of "(cpu|cuda|xpu)(:([0-9]+))?" at the start of s: whether there
\* is one, where it ends, group 1 and group 3.
MatchAtStart(s) ==
    LET ks == {k \in DeviceKinds :
                  Len(k) <= Len(s) /\ SubSeq(s, 1, Len(k)) = k}
    IN  IF ks = {} THEN [matched |-> FALSE, end |-> 0, sm1 |-> <<>>,
                         sm3_matched |-> FALSE, sm3 |-> <<>>]
        ELSE LET k == CHOOSE x \in ks : TRUE
                 c == Len(k) + 1
                 e == DigitsEnd(s, c + 1)
             IN  IF c <= Len(s) /\ s[c] = ":" /\ e > c + 1
                    THEN [matched |-> TRUE, end |-> e - 1, sm1 |-> k,
                          sm3_matched |-> TRUE, sm3 |-> SubSeq(s, c + 1, e - 1)]
                    ELSE [matched |-> TRUE, end |-> Len(k), sm1 |-> k,
                          sm3_matched |-> FALSE, sm3 |-> <<>>]

\* A match that accepts a string that merely starts with a device.
regex_match_prefix(s) == MatchAtStart(s)

\* std::regex_match (line 95): the expression has to match the whole of s.
regex_match(s) ==
    LET m == MatchAtStart(s)
    IN  IF m.matched /\ m.end = Len(s) THEN m
        ELSE [m EXCEPT !.matched = FALSE]

\* Lines 89-115.  b: the build; dt, di: the caller's device_type and
\* device_idx.  Gives the outcome and the two variables afterwards: they are
\* written only once the string has been accepted, device_type before stoi.
parse_device_str(b, s, dt, di) ==
    LET sm == regex_match(s)
        out(res, t, i) == [res |-> res, device_type |-> t, device_idx |-> i]
    IN  IF ~sm.matched THEN out("throw_invalid", dt, di)
        ELSE IF sm.sm1 = <<"x", "p", "u">> /\ b # "XPU"
           THEN out("throw_invalid", dt, di)
        ELSE LET t == CASE sm.sm1 = <<"c", "p", "u">> -> "cpu"
                        [] sm.sm1 = <<"c", "u", "d", "a">> -> "cuda"
                        [] sm.sm1 = <<"x", "p", "u">> -> "xpu"
             IN  IF ~sm.sm3_matched THEN out("ok", t, -1)
                 ELSE IF stoi(sm.sm3, 1, 0) = -1 THEN out("throw_out_of_range", t, di)
                 ELSE out("ok", t, stoi(sm.sm3, 1, 0))

\* =========================================================================
\* Device blob layout: compute_gpu_constant_blob
\* =========================================================================

AOTI_CONST_GPU_ALIGNMENT == 64

\* A rounding that adds a whole alignment unit to every size, aligned or not.
AlignedSize_unconditional(data_size) ==
    AOTI_CONST_GPU_ALIGNMENT +
    (data_size \div AOTI_CONST_GPU_ALIGNMENT) * AOTI_CONST_GPU_ALIGNMENT

\* A rounding down to the alignment.
AlignedSize_down(data_size) ==
    (data_size \div AOTI_CONST_GPU_ALIGNMENT) * AOTI_CONST_GPU_ALIGNMENT

\* Lines 403-406: the size a constant takes in the blob.
AlignedSize(data_size) ==
    IF data_size % AOTI_CONST_GPU_ALIGNMENT # 0
       THEN AOTI_CONST_GPU_ALIGNMENT +
            (data_size \div AOTI_CONST_GPU_ALIGNMENT) * AOTI_CONST_GPU_ALIGNMENT
       ELSE data_size

\* Lines 401-409: the loop over the constants, from ordinal i on.
RECURSIVE BlobLoop(_, _, _, _)
BlobLoop(info, i, size, offsets) ==
    IF i > Len(info) THEN [blob_size |-> size, offsets |-> offsets]
    ELSE BlobLoop(info, i + 1, size + AlignedSize(info[i].data_size),
                  [offsets EXCEPT ![i] = size])

\* Lines 394-411: writes its two reference parameters when built for a GPU and
\* leaves them as the caller passed them otherwise.
compute_gpu_constant_blob(b, info, size, offsets) ==
    IF b \in {"CUDA", "XPU"}
       THEN BlobLoop(info, 1, 0, offsets)
       ELSE [blob_size |-> size, offsets |-> offsets]

\* std::vector<size_t>(num_constants): value-initialised (line 262).
ZeroOffsets(info) == [i \in 1..Len(info) |-> 0]

\* =========================================================================
\* Binary payload accessor: _get_constants_start
\* =========================================================================

\* 0x3fff, the mask of line 599.
WeightsOffsetMask == 16383

\* Lines 578-617.  mm: USE_MMAP_SELF; sm: self_mmap; f: the artifact; env: the
\* system call that fails during this call, if any.  Gives the outcome and
\* the value self_mmap has afterwards.  self_mmap is assigned (line 610)
\* before the trailing magic number is compared (lines 611-614).
get_constants_start(mm, sm, f, env) ==
    IF ~mm THEN [res |-> "ptr", self_mmap |-> sm]
    ELSE IF sm # "unmapped" THEN [res |-> "ptr", self_mmap |-> sm]
    ELSE IF env = "dladdr" THEN [res |-> "throw_dladdr", self_mmap |-> sm]
    ELSE IF env = "open" THEN [res |-> "throw_open", self_mmap |-> sm]
    ELSE IF (f.fsize - f.weights_size) % (WeightsOffsetMask + 1) # 0
            THEN [res |-> "throw_align", self_mmap |-> sm]
    ELSE IF env = "mmap" THEN [res |-> "throw_mmap", self_mmap |-> sm]
    ELSE IF f.trailer # f.magic
            THEN [res |-> "throw_corrupt", self_mmap |-> "mapped"]
    ELSE [res |-> "ptr", self_mmap |-> "mapped"]

\* =========================================================================
\* Constant registry and loader
\* =========================================================================

Names == {"a", "b"}
NameIx(n) == IF n = "a" THEN 1 ELSE 2

\* A tensor handle, identified by the memory it refers to and by the
\* load_constants call (gen) that constructed it; gen 0: built by the owner.
Handle(region, id, off, gen) ==
    [region |-> region, id |-> id, off |-> off, gen |-> gen]

\* ConstantHandle(): a slot of the indexed array that was never written.
Unset == Handle("unset", 0, 0, 0)

\* The handle the owner stored under name n in version v of its weights.
ExtHandle(v, n) == Handle("ext", v, NameIx(n), 0)

\* std::shared_ptr<ConstantMap>: the null pointer, or a map.
NoMap    == [null |-> TRUE, m |-> <<>>]
MapOf(m) == [null |-> FALSE, m |-> m]

\* constants_->resize(n) (line 502).
Resize(arr, n) ==
    [i \in 1..n |-> IF i <= Len(arr) THEN arr[i] ELSE Unset]

\* A rebuild that fills only the slots that are still unset.
Remap_keep_set(arr, map, info) ==
    [i \in 1..Len(arr) |->
        IF i <= Len(info) /\ info[i].name \in DOMAIN map /\ arr[i] = Unset
           THEN map[info[i].name] ELSE arr[i]]

\* Lines 504-511: slot idx takes the handle the map holds under the name of
\* descriptor idx; a slot whose name the map lacks is not written.
Remap(arr, map, info) ==
    [i \in 1..Len(arr) |->
        IF i <= Len(info) /\ info[i].name \in DOMAIN map
           THEN map[info[i].name] ELSE arr[i]]

\* Lines 493-512.  Gives the outcome, constants_ and the heap of arrays.
update_constants_array_from_map(map, cptr, heap, info) ==
    IF map.null
       THEN [res |-> "throw_no_map", constants_ |-> cptr, arrays |-> heap]
    ELSE IF cptr = NULL
       THEN [res |-> "ok", constants_ |-> Len(heap) + 1,
             arrays |-> Append(heap, Remap(Resize(<<>>, Len(info)), map.m, info))]
    ELSE [res |-> "ok", constants_ |-> cptr,
          arrays |-> [heap EXCEPT
                        ![cptr] = Remap(Resize(heap[cptr], Len(info)), map.m, info)]]

\* ------------------------------------------------------------ load_constants

GpuBuild(b) == b \in {"CUDA", "XPU"}

\* A blob as RAII_gpuMalloc returns it (lines 53-58, 64-70): owned by the
\* unique_ptr it is returned in, not yet freed.
NewBlob(size) == [size |-> size, owner |-> "instance", frees |-> 0]

\* The deleter of a RAIIDataPtr runs on the blob it holds, if it holds one.
FreeBlob(heap, id) ==
    IF id = NULL THEN heap
    ELSE [heap EXCEPT ![id].owner = "freed", ![id].frees = @ + 1]

\* Lines 359-392.  cx: the build, the blob constant_blob_ holds, USE_MMAP_SELF,
\* the artifact and the number of this load; sm: self_mmap; w: what fails
\* while this constant is handled, if anything.  Gives the outcome, the
\* pointer, self_mmap afterwards, the outcome of _get_constants_start if it
\* was called, and the payload offset read if the payload was read.
constant_ptr(cx, sm, constant_offset, bytes_read, data_size, skip_copy, w) ==
    LET g == get_constants_start(cx.mm, sm, cx.file, w)
        internal_ptr ==
            IF cx.blob = NULL THEN Handle("null", 0, constant_offset, cx.gen)
            ELSE Handle("blob", cx.blob, constant_offset, cx.gen)
        out(res, ptr, m, start, read) ==
            [res |-> res, ptr |-> ptr, self_mmap |-> m, start |-> start,
             read |-> read]
    IN  IF GpuBuild(cx.build)
           THEN IF skip_copy
                   THEN out("ok", internal_ptr, sm, "none", {})
                ELSE IF g.res # "ptr"
                   THEN out(g.res, internal_ptr, g.self_mmap, g.res, {})
                ELSE IF cx.blob = NULL
                   \* a copy to the null pointer: cudaMemcpy reports an error,
                   \* the SYCL memcpy is undefined
                   THEN out(IF cx.build = "CUDA" THEN "throw_copy" ELSE "crash",
                            internal_ptr, g.self_mmap, g.res, {})
                ELSE IF w = "copy"
                   THEN out("throw_copy", internal_ptr, g.self_mmap, g.res, {})
                ELSE out("ok", internal_ptr, g.self_mmap, g.res, {bytes_read})
           ELSE IF skip_copy
                   THEN out("throw_skip_copy", Unset, sm, "none", {})
                ELSE IF g.res # "ptr"
                   THEN out(g.res, Unset, g.self_mmap, g.res, {})
                ELSE out("ok", Handle("payload", 0, bytes_read, cx.gen),
                         g.self_mmap, g.res, {bytes_read})

\* constants_map_->emplace(name, handle) (line 336): inserts unless the map
\* already has an entry under the name.
Emplace(m, name, handle) ==
    IF name \in DOMAIN m THEN m
    ELSE [n \in DOMAIN m \cup {name} |-> IF n = name THEN handle ELSE m[n]]

\* Lines 276-336: one iteration of the loop of load_constants, for ordinal i.
\* s carries the outcome so far, the map, bytes_read, self_mmap, the outcome
\* of the latest _get_constants_start call, the payload reads made
\* (ordinal, offset) and the tensor handles constructed (ordinal, handle).
LoadStep(cx, d, constant_offset, w, i, s) ==
    IF ~GpuBuild(cx.build) /\ d.from_folded THEN s
    ELSE
      LET p == IF d.data_size # 0
                  THEN constant_ptr(cx, s.self_mmap, constant_offset, s.bytes_read,
                                    d.data_size, d.from_folded, w)
                  ELSE [res |-> "ok", ptr |-> Handle("null", 0, 0, cx.gen),
                        self_mmap |-> s.self_mmap, start |-> "none", read |-> {}]
      IN  [res |-> IF p.res = "ok" /\ w = "tensor" THEN "throw_tensor" ELSE p.res,
           map |-> IF p.res = "ok" /\ w # "tensor"
                      THEN Emplace(s.map, d.name, p.ptr) ELSE s.map,
           bytes_read |-> s.bytes_read + d.data_size,
           self_mmap |-> p.self_mmap,
           start |-> IF p.start = "none" THEN s.start ELSE p.start,
           reads |-> s.reads \cup {<<i, r>> : r \in p.read},
           built |-> IF p.res = "ok" /\ w # "tensor"
                        THEN s.built \cup {<<i, p.ptr>>} ELSE s.built]

\* Lines 275-337: the loop from ordinal i on; an exception ends it.
RECURSIVE LoadLoop(_, _, _, _, _, _)
LoadLoop(cx, info, offsets, fault, i, s) ==
    IF i > Len(info) \/ s.res # "ok" THEN s
    ELSE LoadLoop(cx, info, offsets, fault, i + 1,
                  LoadStep(cx, info[i], offsets[i],
                           IF fault.at = i THEN fault.what ELSE "none", i, s))

NoFault == [at |-> 0, what |-> "none"]

\* What can fail while load_constants handles constant k: a system call of
\* _get_constants_start (when it has still to map the payload), the copy to
\* the device, the construction of the tensor handle.
Faults(info, b, mm, sm) ==
    {NoFault} \cup
    {[at |-> k, what |-> w] :
        k \in 1..Len(info),
        w \in {"tensor"}
              \cup (IF GpuBuild(b) THEN {"copy"} ELSE {})
              \cup (IF mm /\ sm = "unmapped" THEN {"dladdr", "open", "mmap"} ELSE {})}

\* A test of include_weights that never takes the early return.
SkipsWeights_never(iw) == FALSE

\* Lines 270-272: load_constants returns before the loop when the instance
\* was constructed with include_weights = false.
SkipsWeights(iw) == ~iw

\* Whether load_constants allocates a blob (lines 263-269).
Allocates(b, dev) == dev # "cpu" /\ GpuBuild(b)

\* Lines 258-341, for an installed map.  allocOk: whether the device
\* allocation succeeds.  Gives the outcome and the instance's fields
\* afterwards.  cudaMalloc failing throws (line 55); sycl::malloc_device
\* failing returns the null pointer, which line 67 does not check.
load_constants(allocOk, fault) ==
    LET info == constants_info_
        lay  == IF device_type_ # "cpu"
                   THEN compute_gpu_constant_blob(build, info, 0, ZeroOffsets(info))
                   ELSE [blob_size |-> 0, offsets |-> ZeroOffsets(info)]
        allocates   == Allocates(build, device_type_)
        allocThrows == allocates /\ ~allocOk /\ build = "CUDA"
        blob1  == IF ~allocates THEN constant_blob_
                  ELSE IF allocOk THEN Len(blobs) + 1 ELSE NULL
        blobs1 == IF ~allocates THEN blobs
                  ELSE IF allocOk
                     THEN Append(FreeBlob(blobs, constant_blob_), NewBlob(lay.blob_size))
                     ELSE FreeBlob(blobs, constant_blob_)
        before == [res |-> "ok", map |-> constants_map_.m, constants_ |-> constants_,
                   arrays |-> arrays, constant_blob_ |-> constant_blob_,
                   blobs |-> blobs, self_mmap |-> self_mmap, start |-> "none",
                   reads |-> {}, built |-> {}]
        cx == [build |-> build, blob |-> blob1, mm |-> use_mmap_self,
               file |-> file, gen |-> loads + 1]
        s  == LoadLoop(cx, info, lay.offsets, fault, 1,
                       [res |-> "ok", map |-> constants_map_.m, bytes_read |-> 0,
                        self_mmap |-> self_mmap, start |-> "none", reads |-> {},
                        built |-> {}])
        u  == update_constants_array_from_map(MapOf(s.map), constants_, arrays, info)
        alloc == [before EXCEPT !.constant_blob_ = blob1, !.blobs = blobs1]
    IN  IF allocThrows THEN [before EXCEPT !.res = "throw_alloc"]
        ELSE IF SkipsWeights(include_weights) THEN alloc
        ELSE IF s.res # "ok"
           THEN [alloc EXCEPT !.res = s.res, !.map = s.map,
                              !.self_mmap = s.self_mmap, !.start = s.start,
                              !.reads = s.reads, !.built = s.built]
        ELSE [alloc EXCEPT !.map = s.map, !.self_mmap = s.self_mmap,
                           !.start = s.start, !.reads = s.reads,
                           !.built = s.built,
                           !.constants_ = u.constants_, !.arrays = u.arrays]

\* ------------------------------------------------------------ the actions

Ret(op, res) ==
    [op |-> op, res |-> res, start |-> "none", reads |-> {}, built |-> {}]

\* load_constants().  With no map installed line 260 calls a member of the
\* null pointer: the process faults.
LoadConstants ==
    /\ alive = "alive" /\ pc = "idle" /\ loads < MaxLoads
    /\ constants_ # NULL \/ Len(arrays) < MaxArrays
    /\ loads' = loads + 1
    /\ IF constants_map_.null
          THEN /\ alive' = "crashed"
               /\ last' = Ret("load_constants", "crash")
               /\ UNCHANGED <<constants_map_, constants_, arrays, constant_blob_,
                              blobs, self_mmap>>
          ELSE \E allocOk \in IF Allocates(build, device_type_)
                                    THEN BOOLEAN ELSE {TRUE},
                     fault \in IF SkipsWeights(include_weights) THEN {NoFault}
                               ELSE Faults(constants_info_, build,
                                           use_mmap_self, self_mmap) :
                 LET r == load_constants(allocOk, fault)
                 IN  /\ constants_map_' = MapOf(r.map)
                     /\ constants_' = r.constants_
                     /\ arrays' = r.arrays
                     /\ constant_blob_' = r.constant_blob_
                     /\ blobs' = r.blobs
                     /\ self_mmap' = r.self_mmap
                     /\ alive' = IF r.res = "crash" THEN "crashed" ELSE alive
                     /\ last' = [op |-> "load_constants", res |-> r.res,
                                 start |-> r.start, reads |-> r.reads,
                                 built |-> r.built]
    /\ UNCHANGED <<blob_size, constants_internal_offset>>
    /\ UNCHANGED <<cfgVars, lifeVars, peerVars>>

\* get_constants_array() (lines 347-349).
get_constants_array == constants_

\* update_constants_array_from_map() (lines 493-512), called by the owner.
UpdateConstantsArrayFromMap ==
    /\ alive = "alive" /\ pc = "idle"
    /\ constants_ # NULL \/ Len(arrays) < MaxArrays \/ constants_map_.null
    /\ LET u == update_constants_array_from_map(constants_map_, constants_,
                                                arrays, constants_info_)
       IN  /\ constants_' = u.constants_
           /\ arrays' = u.arrays
           /\ last' = Ret("update_constants_array_from_map", u.res)
    /\ UNCHANGED <<constants_map_, constant_blob_, blobs, self_mmap, loads,
                   blob_size, constants_internal_offset>>
    /\ UNCHANGED <<cfgVars, lifeVars, alive, peerVars>>

\* update_constants_map(constants_map, remap_constants_array) (lines 514-521).
UpdateConstantsMap(map, remap_constants_array) ==
    /\ alive = "alive" /\ pc = "idle"
    /\ constants_ # NULL \/ Len(arrays) < MaxArrays \/ map.null
          \/ ~remap_constants_array
    /\ constants_map_' = map
    /\ IF remap_constants_array
          THEN LET u == update_constants_array_from_map(map, constants_, arrays,
                                                        constants_info_)
               IN  /\ constants_' = u.constants_
                   /\ arrays' = u.arrays
                   /\ last' = Ret("update_constants_map_remap", u.res)
          ELSE /\ UNCHANGED <<constants_, arrays>>
               /\ last' = Ret("update_constants_map", "ok")
    /\ UNCHANGED <<constant_blob_, blobs, self_mmap, loads, blob_size,
                   constants_internal_offset>>
    /\ UNCHANGED <<cfgVars, lifeVars, alive, peerVars>>

\* update_constants_array(constants_array) (lines 525-528) with an array the
\* owner has built (fresh, with contents c) ...
UpdateConstantsArrayNew(c) ==
    /\ alive = "alive" /\ pc = "idle"
    /\ Len(arrays) < MaxArrays
    /\ arrays' = Append(arrays, c)
    /\ constants_' = Len(arrays) + 1
    /\ last' = Ret("update_constants_array", "ok")
    /\ UNCHANGED <<constants_map_, constant_blob_, blobs, self_mmap, loads,
                   blob_size, constants_internal_offset>>
    /\ UNCHANGED <<cfgVars, lifeVars, alive, peerVars>>

\* ... or with a pointer it already holds: the null pointer, or an array it
\* built before or got from get_constants_array().
UpdateConstantsArrayHeld(ptr) ==
    /\ alive = "alive" /\ pc = "idle"
    /\ ptr \in {NULL} \cup DOMAIN arrays
    /\ constants_' = ptr
    /\ last' = Ret("update_constants_array", "ok")
    /\ UNCHANGED <<constants_map_, arrays, constant_blob_, blobs, self_mmap,
                   loads, blob_size, constants_internal_offset>>
    /\ UNCHANGED <<cfgVars, lifeVars, alive, peerVars>>

\* update_constants_array(constants_array) (lines 525-528) called on the
\* second instance, with a pointer the container holds.
PeerUpdateConstantsArray(ptr) ==
    /\ alive = "alive" /\ pc = "idle"
    /\ ptr \in {NULL} \cup DOMAIN arrays
    /\ peer_constants_' = ptr
    /\ last' = Ret("peer_update_constants_array", "ok")
    /\ UNCHANGED <<constants_map_, constants_, arrays, constant_blob_, blobs,
                   self_mmap, loads, blob_size, constants_internal_offset>>
    /\ UNCHANGED <<cfgVars, lifeVars, alive>>

\* A release that hands the pointer out and keeps it in the member too.
release_constant_blob_keep(blob) == blob

\* What constant_blob_ holds after a caller has constructed its own
\* RAIIDataPtr from the rvalue reference release_constant_blob() returns
\* (lines 343-345): the move leaves the member null.
release_constant_blob(blob) == NULL

\* release_constant_blob(), the caller taking the blob ...
ReleaseConstantBlobTake ==
    /\ alive = "alive" /\ pc = "idle"
    /\ constant_blob_' = release_constant_blob(constant_blob_)
    /\ blobs' = IF constant_blob_ = NULL THEN blobs
                ELSE [blobs EXCEPT ![constant_blob_].owner = "caller"]
    /\ last' = Ret("release_constant_blob", IF constant_blob_ = NULL THEN "null" ELSE "blob")
    /\ UNCHANGED <<constants_map_, constants_, arrays, self_mmap, loads,
                   blob_size, constants_internal_offset>>
    /\ UNCHANGED <<cfgVars, lifeVars, alive, peerVars>>

\* ... or only looking at the reference, which moves nothing.
ReleaseConstantBlobPeek ==
    /\ alive = "alive" /\ pc = "idle"
    /\ last' = Ret("release_constant_blob", "peek")
    /\ UNCHANGED <<constants_map_, constants_, arrays, constant_blob_, blobs,
                   self_mmap, loads, blob_size, constants_internal_offset>>
    /\ UNCHANGED <<cfgVars, lifeVars, alive, peerVars>>

\* The RAIIDataPtr of the caller that took a blob goes out of scope.
CallerDropBlob ==
    /\ \E id \in DOMAIN blobs :
          /\ blobs[id].owner = "caller"
          /\ blobs' = FreeBlob(blobs, id)
    /\ UNCHANGED <<constants_map_, constants_, arrays, constant_blob_,
                   self_mmap, loads, blob_size, constants_internal_offset, last>>
    /\ UNCHANGED <<cfgVars, lifeVars, alive, peerVars>>

\* _get_constants_start() (lines 578-617) called on its own (it is protected:
\* by the generated model).
GetConstantsStart ==
    /\ alive = "alive" /\ pc = "idle"
    /\ \E env \in {"none", "dladdr", "open", "mmap"} :
          LET g == get_constants_start(use_mmap_self, self_mmap, file, env)
          IN  /\ self_mmap' = g.self_mmap
              /\ last' = [op |-> "_get_constants_start", res |-> g.res,
                          start |-> g.res, reads |-> {}, built |-> {}]
    /\ UNCHANGED <<constants_map_, constants_, arrays, constant_blob_, blobs,
                   loads, blob_size, constants_internal_offset>>
    /\ UNCHANGED <<cfgVars, lifeVars, alive, peerVars>>

\* compute_gpu_constant_blob(blob_size, constants_internal_offset) (lines
\* 394-411) called with the caller's two variables.
ComputeGpuConstantBlob ==
    /\ alive = "alive" /\ pc = "idle"
    /\ LET r == compute_gpu_constant_blob(build, constants_info_, blob_size,
                                          constants_internal_offset)
       IN  /\ blob_size' = r.blob_size
           /\ constants_internal_offset' = r.offsets
    /\ last' = Ret("compute_gpu_constant_blob", "ok")
    /\ UNCHANGED <<constants_map_, constants_, arrays, constant_blob_, blobs,
                   self_mmap, loads>>
    /\ UNCHANGED <<cfgVars, lifeVars, alive, peerVars>>

\* parse_device_str(device_str, device_type, device_idx) (lines 89-115)
\* called with the caller's two variables.
ParseDeviceStr ==
    /\ alive = "alive" /\ pc = "idle"
    /\ LET r == parse_device_str(build, device_str, device_type_, device_idx_)
       IN  /\ device_type_' = r.device_type
           /\ device_idx_' = r.device_idx
           /\ last' = Ret("parse_device_str", r.res)
    /\ UNCHANGED <<build, use_mmap_self, device_str, include_weights,
                   constants_info_, file>>
    /\ UNCHANGED <<constants_map_, constants_, arrays, constant_blob_, blobs,
                   self_mmap, loads, blob_size, constants_internal_offset>>
    /\ UNCHANGED <<lifeVars, alive, peerVars>>

\* ~AOTInductorModelBase() (lines 157-173), then the members: constant_blob_
\* frees the blob it holds.  The XPU destructor waits for the event first.
Destroy ==
    /\ alive = "alive" /\ pc = "idle"
    /\ ~(build = "XPU" /\ run_finished_ = "set" /\ event = "pending")
    /\ alive' = "destroyed"
    /\ destroyed' = IF GpuBuild(build) /\ run_finished_ = "set"
                       THEN destroyed + 1 ELSE destroyed
    /\ blobs' = FreeBlob(blobs, constant_blob_)
    /\ UNCHANGED <<run_finished_, entry_value, event, pc, running, phase, runs,
                   created, hist>>
    /\ UNCHANGED <<constants_map_, constants_, arrays, constant_blob_,
                   self_mmap, loads, blob_size, constants_internal_offset, last>>
    /\ UNCHANGED <<cfgVars, peerVars>>

\* =========================================================================
\* Construction and the specifications
\* =========================================================================

\* The device types parse_device_str (lines 89-115) accepts: "xpu" only when
\* built with USE_XPU (lines 102-105).
DeviceTypes(b) == IF b = "XPU" THEN {"cpu", "cuda", "xpu"} ELSE {"cpu", "cuda"}

\* The device a build is made for.
OwnDevice(b) == CASE b = "CPU" -> "cpu" [] b = "CUDA" -> "cuda" [] b = "XPU" -> "xpu"

\* The device string without an index that names a device type.
DeviceStrOf(dev) ==
    CASE dev = "cpu"  -> <<"c", "p", "u">>
      [] dev = "cuda" -> <<"c", "u", "d", "a">>
      [] dev = "xpu"  -> <<"x", "p", "u">>

\* The device the constructor finds current when the string gives no index
\* (lines 139-153).
CurrentDevice == 0

\* Artifacts: header (payload size 1024, magic 0xABCD), a payload that starts
\* on a 16 KiB boundary or one byte off it, a trailer that matches or not.
Files ==
    {[fsize |-> fs, weights_size |-> 1024, magic |-> 43981, trailer |-> t] :
        fs \in {17408, 17409}, t \in {43981, 43980}}
GoodFile == [fsize |-> 17408, weights_size |-> 1024, magic |-> 43981,
             trailer |-> 43981]

Desc(n, sz, ff) == [name |-> n, data_size |-> sz, from_folded |-> ff]

\* All sequences over S of length at most n.
RECURSIVE SeqsUpTo(_, _)
SeqsUpTo(S, n) ==
    IF n = 0 THEN {<<>>}
    ELSE LET T == SeqsUpTo(S, n - 1)
         IN  T \cup {Append(t, x) : t \in {u \in T : Len(u) = n - 1}, x \in S}

\* The versions of the weights an owner has.
Versions == {1, 2}

\* The maps an owner installs: version v of the weights of some of the names.
OwnerMaps ==
    {MapOf([n \in S |-> ExtHandle(v, n)]) : S \in SUBSET Names, v \in Versions}

\* The arrays an owner builds for descriptors info: of the right length or one
\* off it, holding version v of each constant, or nothing (v = 0).
OwnerArrays(info) ==
    {[i \in 1..len |->
         IF v = 0 \/ i > Len(info) THEN Unset ELSE ExtHandle(v, info[i].name)] :
       len \in {l \in {Len(info) - 1, Len(info), Len(info) + 1} : l >= 0},
       v \in {0} \cup Versions}

\* The fields as the constructor (lines 125-154) and the member initialisers
\* (lines 643-673) leave them.
InitFields ==
    /\ device_str = DeviceStrOf(device_type_)
    /\ device_idx_ = (IF GpuBuild(build) THEN CurrentDevice ELSE -1)
    /\ run_finished_ = run_finished_init(build)
    /\ entry_value = run_finished_init(build)
    /\ event = "none"
    /\ pc = "idle"
    /\ running = "run"
    /\ phase = "none"
    /\ runs = 0
    /\ created = 0
    /\ destroyed = 0
    /\ hist = <<NoCall, NoCall>>
    /\ alive = "alive"
    /\ constants_map_ = NoMap
    /\ constants_ = NULL
    /\ arrays = <<>>
    /\ constant_blob_ = NULL
    /\ blobs = <<>>
    /\ self_mmap = "unmapped"
    /\ loads = 0
    /\ last = Ret("none", "none")
    /\ peer_constants_ = NULL

\* ---- the execution lifecycle, in each build
InitLifecycle ==
    /\ build \in Builds
    /\ use_mmap_self = FALSE
    /\ device_type_ = OwnDevice(build)
    /\ include_weights = TRUE
    /\ constants_info_ = <<>>
    /\ file = GoodFile
    /\ blob_size = 0
    /\ constants_internal_offset = <<>>
    /\ InitFields

NextLifecycle ==
    \/ \E kind \in Kinds : RunEnter(kind)
    \/ RunEntryResume
    \/ RunImplReturn
    \/ RunImplThrow
    \/ DeviceComplete
    \/ DeviceFail
    \/ IsFinished
    \/ WaitForCompletion
    \/ Destroy

SpecLifecycle == InitLifecycle /\ [][NextLifecycle]_vars

\* ---- the registry: descriptors differ in their names
InitRegistry ==
    /\ build = "CPU"
    /\ use_mmap_self = FALSE
    /\ device_type_ = OwnDevice(build)
    /\ include_weights = TRUE
    /\ constants_info_ \in SeqsUpTo({Desc(n, 8, FALSE) : n \in Names}, MaxConstants)
    /\ file = GoodFile
    /\ blob_size = 0
    /\ constants_internal_offset = ZeroOffsets(constants_info_)
    /\ InitFields

NextRegistry ==
    \/ UpdateConstantsArrayFromMap
    \/ \E map \in OwnerMaps \cup {NoMap}, remap \in BOOLEAN :
          UpdateConstantsMap(map, remap)
    \/ \E c \in OwnerArrays(constants_info_) : UpdateConstantsArrayNew(c)
    \/ \E ptr \in {NULL} \cup DOMAIN arrays : UpdateConstantsArrayHeld(ptr)

SpecRegistry == InitRegistry /\ [][NextRegistry]_vars

\* ---- the loader: descriptors differ in name, size and from_folded,
\* every build with every device type it accepts
InitLoader ==
    /\ build \in Builds
    /\ use_mmap_self = TRUE
    /\ device_type_ \in DeviceTypes(build)
    /\ include_weights \in BOOLEAN
    /\ constants_info_ \in
          SeqsUpTo({Desc("a", 8, FALSE), Desc("a", 0, FALSE), Desc("a", 8, TRUE),
                    Desc("b", 8, FALSE)}, MaxConstants)
    /\ file = GoodFile
    /\ blob_size = 0
    /\ constants_internal_offset = ZeroOffsets(constants_info_)
    /\ InitFields

\* The maps the owner installs before it loads: an empty one, or one that
\* already holds its own handle for constant "a".
LoaderMaps == {MapOf(<<>>), MapOf([n \in {"a"} |-> ExtHandle(1, n)])}

NextLoader ==
    \/ \E map \in LoaderMaps, remap \in BOOLEAN : UpdateConstantsMap(map, remap)
    \/ LoadConstants

SpecLoader == InitLoader /\ [][NextLoader]_vars

\* ---- the loader of an instance constructed with include_weights = false
InitNoWeights ==
    /\ build \in Builds
    /\ use_mmap_self = TRUE
    /\ device_type_ \in DeviceTypes(build)
    /\ include_weights = FALSE
    /\ constants_info_ \in
          SeqsUpTo({Desc("a", 8, FALSE), Desc("a", 0, FALSE), Desc("a", 8, TRUE),
                    Desc("b", 8, FALSE)}, MaxConstants)
    /\ file = GoodFile
    /\ blob_size = 0
    /\ constants_internal_offset = ZeroOffsets(constants_info_)
    /\ InitFields

SpecNoWeights == InitNoWeights /\ [][NextLoader]_vars

\* ---- the ownership of the blob: load, relinquish, destroy
InitBlob ==
    /\ build \in Builds
    /\ use_mmap_self = FALSE
    /\ device_type_ \in {OwnDevice(build), "cpu"}
    /\ include_weights \in BOOLEAN
    /\ constants_info_ \in
          SeqsUpTo({Desc("a", 8, FALSE), Desc("b", 0, FALSE)}, MaxConstants)
    /\ file = GoodFile
    /\ blob_size = 0
    /\ constants_internal_offset = ZeroOffsets(constants_info_)
    /\ InitFields

NextBlob ==
    \/ UpdateConstantsMap(MapOf(<<>>), FALSE)
    \/ LoadConstants
    \/ ReleaseConstantBlobTake
    \/ ReleaseConstantBlobPeek
    \/ CallerDropBlob
    \/ Destroy

SpecBlob == InitBlob /\ [][NextBlob]_vars

\* ---- the payload accessor: artifacts differ
InitPayload ==
    /\ build \in Builds
    /\ use_mmap_self \in BOOLEAN
    /\ device_type_ = OwnDevice(build)
    /\ include_weights = TRUE
    /\ constants_info_ \in SeqsUpTo({Desc("a", 8, FALSE)}, MaxConstants)
    /\ file \in Files
    /\ blob_size = 0
    /\ constants_internal_offset = ZeroOffsets(constants_info_)
    /\ InitFields

NextPayload ==
    \/ UpdateConstantsMap(MapOf(<<>>), FALSE)
    \/ GetConstantsStart
    \/ LoadConstants

SpecPayload == InitPayload /\ [][NextPayload]_vars

\* ---- the layout: descriptors differ in size, the caller's variables hold
\* anything before the call
LayoutSizes == {0, 1, 63, 64, 65, 128}

InitLayout ==
    /\ build \in Builds
    /\ use_mmap_self = FALSE
    /\ device_type_ = OwnDevice(build)
    /\ include_weights = TRUE
    /\ constants_info_ \in
          SeqsUpTo({Desc("a", sz, FALSE) : sz \in LayoutSizes}, MaxLayoutConstants)
    /\ file = GoodFile
    /\ blob_size \in {0, 5}
    /\ constants_internal_offset \in
          {[i \in 1..Len(constants_info_) |-> x] : x \in {0, 7}}
    /\ InitFields

NextLayout == ComputeGpuConstantBlob

SpecLayout == InitLayout /\ [][NextLayout]_vars

\* ---- the device string: strings that start like a device or not, followed
\* by an index or by something else
StrPrefixes ==
    {<<>>, <<"c", "p", "u">>, <<"c", "u", "d", "a">>, <<"x", "p", "u">>,
     <<"t", "p", "u">>, <<"c", "p">>, <<"C", "P", "U">>, <<" ", "c", "p", "u">>}

StrSuffixes ==
    {<<>>, <<":">>, <<":", "0">>, <<":", "1">>, <<":", "1", "2">>, <<":", "x">>,
     <<":", "1", "x">>, <<"1">>, <<" ">>, <<":", "-", "1">>,
     <<":", "1", ":", "2">>,
     <<":", "2", "1", "4", "7", "4", "8", "3", "6", "4", "7">>,
     <<":", "2", "1", "4", "7", "4", "8", "3", "6", "4", "8">>}

DeviceStrs == {p \o s : p \in StrPrefixes, s \in StrSuffixes}

\* The members are value-initialised (lines 672-673) when the constructor
\* calls parse_device_str; another caller's variables hold anything.
InitDevice ==
    /\ build \in Builds
    /\ use_mmap_self = FALSE
    /\ device_str \in DeviceStrs
    /\ device_type_ \in {"0", "cuda"}
    /\ device_idx_ \in {0, 7}
    /\ include_weights = TRUE
    /\ constants_info_ = <<>>
    /\ file = GoodFile
    /\ blob_size = 0
    /\ constants_internal_offset = <<>>
    /\ run_finished_ = run_finished_init(build)
    /\ entry_value = run_finished_init(build)
    /\ event = "none"
    /\ pc = "idle"
    /\ running = "run"
    /\ phase = "none"
    /\ runs = 0
    /\ created = 0
    /\ destroyed = 0
    /\ hist = <<NoCall, NoCall>>
    /\ alive = "alive"
    /\ constants_map_ = NoMap
    /\ constants_ = NULL
    /\ arrays = <<>>
    /\ constant_blob_ = NULL
    /\ blobs = <<>>
    /\ self_mmap = "unmapped"
    /\ loads = 0
    /\ last = Ret("none", "none")
    /\ peer_constants_ = NULL

NextDevice == ParseDeviceStr

SpecDevice == InitDevice /\ [][NextDevice]_vars

\* ---- two instances of one model: the container builds an array and gives
\* it to both
InitShared ==
    /\ build = "CPU"
    /\ use_mmap_self = FALSE
    /\ device_type_ = OwnDevice(build)
    /\ include_weights = TRUE
    /\ constants_info_ \in SeqsUpTo({Desc(n, 8, FALSE) : n \in Names}, MaxConstants)
    /\ file = GoodFile
    /\ blob_size = 0
    /\ constants_internal_offset = ZeroOffsets(constants_info_)
    /\ InitFields

NextShared ==
    \/ UpdateConstantsArrayFromMap
    \/ \E map \in OwnerMaps \cup {NoMap}, remap \in BOOLEAN :
          UpdateConstantsMap(map, remap)
    \/ \E c \in OwnerArrays(constants_info_) : UpdateConstantsArrayNew(c)
    \/ \E ptr \in {NULL} \cup DOMAIN arrays : UpdateConstantsArrayHeld(ptr)
    \/ \E ptr \in {NULL} \cup DOMAIN arrays : PeerUpdateConstantsArray(ptr)

SpecShared == InitShared /\ [][NextShared]_vars

\* ---- the destinations in the blob: descriptors differ in size, GPU devices
InitDest ==
    /\ build \in Builds
    /\ use_mmap_self = FALSE
    /\ device_type_ \in DeviceTypes(build) \ {"cpu"}
    /\ include_weights = TRUE
    /\ constants_info_ \in
          SeqsUpTo({Desc("a", 0, FALSE), Desc("a", 1, FALSE),
                    Desc("b", 65, FALSE), Desc("b", 64, TRUE)}, MaxConstants)
    /\ file = GoodFile
    /\ blob_size = 0
    /\ constants_internal_offset = ZeroOffsets(constants_info_)
    /\ InitFields

NextDest ==
    \/ UpdateConstantsMap(MapOf(<<>>), FALSE)
    \/ LoadConstants

SpecDest == InitDest /\ [][NextDest]_vars

\* =========================================================================
\* The claims
\* =========================================================================

WaitThenPoll ==
    /\ Prev.op = "wait_for_completion" /\ Prev.res = "ok"
    /\ Last.op = "is_finished"

\* C1 (as stated): in every build, an is_finished() that immediately follows
\* a wait_for_completion() that returned normally returns true.
C1_WaitThenFinished == WaitThenPoll => Last.res = "true"

\* C1 (amended): on CUDA and XPU an is_finished() that immediately follows a
\* wait_for_completion() that returned normally returns true; in the
\* synchronous build it returns true exactly when the latest run or
\* run_const_fold returned normally, and false when no run was made or the
\* latest one failed in its compute routine.
C1_WaitThenFinishedAmended ==
    WaitThenPoll =>
        IF build = "CPU"
           THEN Last.res = (IF Last.phase = "resolved" THEN "true" ELSE "false")
           ELSE Last.res = "true"

C1_Witness ==
    /\ WaitThenPoll /\ GpuBuild(build)
    /\ Last.res = "true" /\ Last.phase = "resolved" /\ runs >= 2

\* C2: on CUDA and XPU, is_finished() called between calls fails with "event
\* was not initialized" exactly when no run or run_const_fold was ever entered.
C2_UninitOnlyBeforeFirstRun ==
    (GpuBuild(build) /\ Last.op = "is_finished" /\ Last.pc = "idle")
        => (Last.res = "throw_uninit" <=> Last.phase = "none")

\* C3: from the entry of a run until its completion marker has been recorded
\* and has resolved, is_finished() never returns true.
C3_NotFinishedWhileRunOutstanding ==
    (Last.op = "is_finished" /\ Last.phase \in {"entered", "recorded"})
        => Last.res # "true"

Rebuilt ==
    /\ last.op \in {"update_constants_array_from_map", "update_constants_map_remap"}
    /\ last.res = "ok"

NameAt(i) == constants_info_[i].name

\* C4: after update_constants_map followed by a rebuild of the array, every
\* slot whose descriptor name is a key of the installed map holds the handle
\* the map stores under that name.
C4_RebuildInstallsMapHandles ==
    Rebuilt =>
        /\ constants_ # NULL
        /\ ~constants_map_.null
        /\ \A i \in 1..Len(constants_info_) :
              NameAt(i) \in DOMAIN constants_map_.m
                 => arrays[constants_][i] = constants_map_.m[NameAt(i)]

C4_Witness ==
    /\ Rebuilt
    /\ \E i, j \in 1..Len(constants_info_) :
          /\ NameAt(i) \in DOMAIN constants_map_.m
          /\ arrays[constants_][i] = ExtHandle(2, NameAt(i))
          /\ NameAt(j) \notin DOMAIN constants_map_.m
          /\ arrays[constants_][j] = ExtHandle(1, NameAt(j))

\* C5: after the map is swapped and the array rebuilt, every slot whose
\* descriptor name is absent from the installed map is unset.
C5_AbsentNamesAreUnset ==
    Rebuilt =>
        \A i \in 1..Len(constants_info_) :
            NameAt(i) \notin DOMAIN constants_map_.m
               => arrays[constants_][i] = Unset

\* C6: the array get_constants_array() returns has exactly num_constants
\* slots.
C6_ArrayHasNumConstantsSlots ==
    get_constants_array # NULL
        => Len(arrays[get_constants_array]) = Len(constants_info_)

\* Constant i is one load_constants materialises (lines 276-282).
Materialised(i) == GpuBuild(build) \/ ~constants_info_[i].from_folded

\* C7: a load_constants call either returns normally with every constant it
\* does not skip present in the map and in its array slot, or fails and
\* leaves the map, the array and the blob as they were before the call.
C7_LoadIsAllOrNothing ==
    [][(loads' = loads + 1 /\ alive' = "alive") =>
          IF last'.res = "ok"
             THEN include_weights =>
                    \A i \in 1..Len(constants_info_) :
                       Materialised(i) =>
                          /\ NameAt(i) \in DOMAIN constants_map_'.m
                          /\ arrays'[constants_'][i] = constants_map_'.m[NameAt(i)]
             ELSE /\ constants_map_' = constants_map_
                  /\ constants_' = constants_
                  /\ arrays' = arrays
                  /\ constant_blob_' = constant_blob_
                  /\ blobs' = blobs]_vars

\* The size of constant i rounded up to the next multiple of the alignment.
RoundedUp(i) ==
    ((constants_info_[i].data_size + AOTI_CONST_GPU_ALIGNMENT - 1)
        \div AOTI_CONST_GPU_ALIGNMENT) * AOTI_CONST_GPU_ALIGNMENT

RECURSIVE SumRoundedUp(_)
SumRoundedUp(n) == IF n = 0 THEN 0 ELSE SumRoundedUp(n - 1) + RoundedUp(n)

LayoutComputed == last.op = "compute_gpu_constant_blob" /\ GpuBuild(build)

LayoutSums ==
    /\ \A i \in 1..Len(constants_info_) :
          /\ constants_internal_offset[i] = SumRoundedUp(i - 1)
          /\ constants_internal_offset[i] % AOTI_CONST_GPU_ALIGNMENT = 0
    /\ blob_size = SumRoundedUp(Len(constants_info_))

\* C8 (as stated): in a GPU build compute_gpu_constant_blob gives offsets
\* that are strictly increasing, multiples of 64 and the sums of the
\* rounded-up sizes of the constants before, and the total of them all.
C8_OffsetsStrictlyIncreasing ==
    LayoutComputed =>
        /\ LayoutSums
        /\ \A i \in 1..(Len(constants_info_) - 1) :
              constants_internal_offset[i] < constants_internal_offset[i + 1]

\* C8 (amended): the offsets are multiples of 64, the sums of the rounded-up
\* sizes before, and the total is the sum of them all, whatever the caller's
\* variables held before; they never decrease, and the offset after constant
\* i is larger than that of constant i exactly when constant i has a size
\* other than 0.
C8_OffsetsAmended ==
    LayoutComputed =>
        /\ LayoutSums
        /\ \A i \in 1..(Len(constants_info_) - 1) :
              /\ constants_internal_offset[i] <= constants_internal_offset[i + 1]
              /\ (constants_internal_offset[i] < constants_internal_offset[i + 1])
                    <=> (constants_info_[i].data_size # 0)

C8_Witness ==
    /\ LayoutComputed
    /\ Len(constants_info_) = 3
    /\ constants_info_[1].data_size = 65
    /\ constants_info_[2].data_size = 0
    /\ constants_internal_offset = <<0, 128, 128>>
    /\ blob_size = 192

\* C9: every blob is freed at most once, by the party that owns it; the
\* instance owns exactly the blob constant_blob_ holds, so a blob it handed
\* out is freed neither by a later release nor by the destructor; once the
\* instance is destroyed and the callers have dropped what they took, every
\* blob has been freed exactly once.
C9_BlobFreedExactlyOnce ==
    /\ \A id \in DOMAIN blobs :
          /\ blobs[id].frees <= 1
          /\ (blobs[id].owner = "instance")
                <=> (constant_blob_ = id /\ alive # "destroyed")
          /\ blobs[id].owner = "caller" => blobs[id].frees = 0
    /\ (alive = "destroyed" /\ \A id \in DOMAIN blobs : blobs[id].owner # "caller")
          => \A id \in DOMAIN blobs : blobs[id].frees = 1

C9_Witness ==
    /\ alive = "destroyed"
    /\ Len(blobs) = 2
    /\ \A id \in DOMAIN blobs : blobs[id].frees = 1
    /\ last = Ret("release_constant_blob", "blob")

\* C10: with the self-map strategy and a trailing magic number that differs
\* from the header's, no call gets a payload pointer and no constant is read
\* from the payload.
C10_CorruptPayloadNeverUsed ==
    (use_mmap_self /\ file.trailer # file.magic)
        => (last.start # "ptr" /\ last.reads = {})

\* C11: when load_constants returns normally, the map holds, under the name
\* of every constant it constructed a handle for, the handle constructed in
\* this call for the last descriptor of that name, whatever the map held
\* under the name before.
C11_LoadOverwritesPriorEntry ==
    (last.op = "load_constants" /\ last.res = "ok") =>
        \A e \in last.built :
            (\A f \in last.built : NameAt(f[1]) = NameAt(e[1]) => f[1] <= e[1])
                => constants_map_.m[NameAt(e[1])] = e[2]

\* The declared data sizes of constants 1..n, added up.
RECURSIVE SumDataSizes(_)
SumDataSizes(n) ==
    IF n = 0 THEN 0 ELSE SumDataSizes(n - 1) + constants_info_[n].data_size

\* C12: the payload offset load_constants reads constant i from is the sum of
\* the declared data sizes of all the constants before it, folded or skipped
\* ones included.
C12_ReadCursorIsSumOfPriorSizes ==
    last.op = "load_constants" =>
        \A e \in last.reads : e[2] = SumDataSizes(e[1] - 1)

\* C13: for a constant flagged from_folded load_constants copies no payload
\* bytes; when the device is "cpu" it allocates nothing and constructs no
\* handle for it, so that its registry entry is left alone; when the device
\* is a GPU it constructs a handle into the device blob.
C13_FoldedConstantsAreNotCopied ==
    (last.op = "load_constants" /\ last.res = "ok" /\ include_weights) =>
        \A i \in 1..Len(constants_info_) :
            constants_info_[i].from_folded =>
                /\ \A e \in last.reads : e[1] # i
                /\ IF device_type_ = "cpu"
                      THEN /\ \A e \in last.built : e[1] # i
                           /\ blobs = <<>>
                      ELSE \E e \in last.built : e[1] = i /\ e[2].region = "blob"

C15_RebuildWithoutMapChangesNothing ==
    [][/\ (last'.op \in {"update_constants_array_from_map",
                         "update_constants_map_remap"}
             /\ constants_map_'.null) => last'.res = "throw_no_map"
       /\ last'.res = "throw_no_map" =>
             /\ constants_map_' = constants_map_
             /\ constants_' = constants_
             /\ arrays' = arrays]_vars

\* A device string of the documented form: cpu, cuda or xpu, alone or
\* followed by a colon and one or more digits.
WellFormedDeviceStr(s) ==
    \E k \in {DeviceStrOf("cpu"), DeviceStrOf("cuda"), DeviceStrOf("xpu")} :
        \/ s = k
        \/ /\ Len(s) > Len(k) + 1
           /\ SubSeq(s, 1, Len(k)) = k
           /\ s[Len(k) + 1] = ":"
           /\ \A i \in (Len(k) + 2)..Len(s) : s[i] \in Digits

Parsed(res, type, idx) ==
    last.res = res /\ (res = "ok" => device_type_ = type /\ device_idx_ = idx)

\* C16 (as stated): in every build parse_device_str maps "cpu" to CPU with
\* no index, "cuda:1" to CUDA with index 1 and "xpu" to XPU with no index,
\* and rejects "tpu" and every string not of the form kind or kind:digits
\* with 'Invalid device'.
C16_ParseDeviceStrAnyBuild ==
    last.op = "parse_device_str" =>
        /\ device_str = <<"c", "p", "u">> => Parsed("ok", "cpu", -1)
        /\ device_str = <<"c", "u", "d", "a", ":", "1">> => Parsed("ok", "cuda", 1)
        /\ device_str = <<"x", "p", "u">> => Parsed("ok", "xpu", -1)
        /\ device_str = <<"t", "p", "u">> => Parsed("throw_invalid", "", 0)
        /\ ~WellFormedDeviceStr(device_str) => Parsed("throw_invalid", "", 0)

\* C16 (amended): as stated for "cpu", "cuda:1", "tpu" and the malformed
\* strings; "xpu", with or without an index, gives XPU only in a build with
\* USE_XPU and is rejected with 'Invalid device' in every other build.
C16_ParseDeviceStrAmended ==
    last.op = "parse_device_str" =>
        /\ device_str = <<"c", "p", "u">> => Parsed("ok", "cpu", -1)
        /\ device_str = <<"c", "u", "d", "a", ":", "1">> => Parsed("ok", "cuda", 1)
        /\ device_str = <<"x", "p", "u">> =>
              IF build = "XPU" THEN Parsed("ok", "xpu", -1)
              ELSE Parsed("throw_invalid", "", 0)
        /\ (Len(device_str) >= 3 /\ SubSeq(device_str, 1, 3) = <<"x", "p", "u">>
              /\ build # "XPU") => Parsed("throw_invalid", "", 0)
        /\ device_str = <<"t", "p", "u">> => Parsed("throw_invalid", "", 0)
        /\ ~WellFormedDeviceStr(device_str) => Parsed("throw_invalid", "", 0)

C16_Witness ==
    /\ last = Ret("parse_device_str", "throw_invalid")
    /\ device_str = <<"x", "p", "u">>
    /\ build = "CUDA"

C18_RunNeverBlocks == GpuBuild(build) => pc # "entry_wait"

\* C19: in the synchronous build a run or run_const_fold that returns
\* normally leaves the flag true and an is_finished() right after it returns
\* true; wait_for_completion() never fails and leaves the flag, the registry
\* map and the indexed array as they were.
C19_SynchronousTarget ==
    [][build = "CPU" =>
          /\ (hist' # hist /\ Last'.op \in Kinds /\ Last'.res = "ok")
                => run_finished_' = "true"
          /\ (hist' # hist /\ Last'.op = "is_finished" /\ Last.op \in Kinds
                /\ Last.res = "ok") => Last'.res = "true"
          /\ (hist' # hist /\ Last'.op = "wait_for_completion")
                => /\ Last'.res = "ok"
                   /\ run_finished_' = run_finished_
                   /\ constants_map_' = constants_map_
                   /\ constants_' = constants_
                   /\ arrays' = arrays]_vars

C19_Witness ==
    /\ build = "CPU"
    /\ Prev.op \in Kinds /\ Prev.res = "ok"
    /\ Last.op = "wait_for_completion" /\ Last.res = "ok"
    /\ run_finished_ = "true" /\ runs = 2

\* C20: in a GPU build with a GPU device, while the instance is alive, every
\* handle of the registry map and of the indexed array that refers to a
\* device blob refers to a blob that has not been freed.
C20_HandlesPointIntoLiveBlob ==
    (GpuBuild(build) /\ device_type_ # "cpu" /\ alive = "alive") =>
        /\ \A n \in DOMAIN constants_map_.m :
              constants_map_.m[n].region = "blob"
                 => blobs[constants_map_.m[n].id].frees = 0
        /\ constants_ # NULL =>
              \A i \in DOMAIN arrays[constants_] :
                 arrays[constants_][i].region = "blob"
                    => blobs[arrays[constants_][i].id].frees = 0

\* The bytes [off, off + size) a handle built for ordinal i designates.
DestEnd(e) == e[2].off + constants_info_[e[1]].data_size

InBlob(e) == e[2].region = "blob" /\ constants_info_[e[1]].data_size # 0

\* C21: the destinations load_constants uses in the blob it allocated, for
\* the constants of a size other than 0, lie inside the blob and no two of
\* them overlap.
C21_DestinationsDisjointInBlob ==
    (last.op = "load_constants" /\ device_type_ # "cpu") =>
        \A e \in last.built :
            InBlob(e) =>
                /\ e[2].id = constant_blob_
                /\ 0 <= e[2].off
                /\ DestEnd(e) <= blobs[e[2].id].size
                /\ \A f \in last.built :
                      (InBlob(f) /\ f[1] # e[1]) =>
                          (DestEnd(e) <= f[2].off \/ DestEnd(f) <= e[2].off)

C21_Witness ==
    /\ last.op = "load_constants" /\ last.res = "ok" /\ build = "CUDA"
    /\ constants_info_ = <<Desc("a", 1, FALSE), Desc("b", 65, FALSE)>>
    /\ blobs[constant_blob_].size = 192
    /\ \E e, f \in last.built :
          /\ e[1] = 1 /\ e[2].off = 0 /\ InBlob(e)
          /\ f[1] = 2 /\ f[2].off = 64 /\ InBlob(f)

\* C22: when this instance and a second one hold the same indexed array, a
\* swap of the map or a rebuild of the array on this instance leaves the
\* slots the second instance gets from get_constants_array() as they were.
C22_PeerViewUnchangedBySwap ==
    [][(/\ last'.op \in {"update_constants_array_from_map",
                         "update_constants_map_remap", "update_constants_map"}
        /\ peer_constants_ # NULL /\ peer_constants_ = constants_)
          => /\ peer_constants_' = peer_constants_
             /\ arrays'[peer_constants_] = arrays[peer_constants_]]_vars

====
